---- MODULE Spec2Model ----
(***************************************************************************)
(* Model of App_controle_pessoal.py: the Streamlit finance dashboard.      *)
(*                                                                         *)
(* load_and_process_data walks the working directory, reads the .csv/.xlsx *)
(* files of the folders it found, normalises their columns and assembles   *)
(* the ledger; main filters the ledger by the widget values and renders    *)
(* the aggregations.                                                       *)
(*                                                                         *)
(* Text is modelled as a sequence of atoms (pieces of text that contain no *)
(* delimiter, plus the delimiters "," and ";" themselves), so that reading *)
(* a line with one delimiter or the other, lowercasing, trimming and       *)
(* decoding are computed and not assumed.  Dates are integers yyyymmdd.    *)
(***************************************************************************)
EXTENDS Integers, Sequences, FiniteSets, TLC

----------------------------------------------------------------------------
(* Cells of a DataFrame: a number, a text, a timestamp or a missing value. *)

NaN == [t |-> "nan", n |-> 0, s |-> <<>>]
Num(v) == [t |-> "num", n |-> v, s |-> <<>>]
Str(a) == [t |-> "str", n |-> 0, s |-> a]
Ts(d) == [t |-> "ts", n |-> d, s |-> <<>>]

NaT == 0

Max2(a, b) == IF a >= b THEN a ELSE b

Range(f) == {f[i] : i \in DOMAIN f}


----------------------------------------------------------------------------
(* str.lower(), str.strip() and the bytes-to-text decoding, per atom.      *)

LowerTable ==
    [Data |-> "data", DATA |-> "data", Date |-> "date", date |-> "date",
     Valor |-> "valor", VALOR |-> "valor", Amount |-> "amount",
     Title |-> "title", Extrato |-> "extrato", FATURA |-> "fatura",
     Fatura |-> "fatura", Identificador |-> "identificador",
     Category |-> "category"]
     @@ ("Descrição" :> "descrição")
     @@ ("DescriÃ§Ã£o" :> "descriã§ã£o")

lower(atom) == IF atom \in DOMAIN LowerTable THEN LowerTable[atom] ELSE atom

StripTable == (" Data " :> "Data") @@ ("VALOR " :> "VALOR") @@ (" valor" :> "valor")

strip(atom) == IF atom \in DOMAIN StripTable THEN StripTable[atom] ELSE atom

(* The text a UTF-8 file's non-ASCII atom becomes when its bytes are       *)
(* decoded as ISO-8859-1.                                                  *)
Mojibake == ("Descrição" :> "DescriÃ§Ã£o") @@ ("descrição" :> "descriÃ§Ã£o")

NonAscii(atom) == atom \in DOMAIN Mojibake

Decode(atom, fileEnc, readEnc) ==
    IF fileEnc = "utf8" /\ readEnc = "latin1" /\ NonAscii(atom)
    THEN Mojibake[atom] ELSE atom

(* The numbers pandas' parser recognises: a decimal comma is not one.      *)
NumAtom ==
    [a \in {"-50", "-20", "-30", "100", "0", "-5", "-10", "00", "-7", "-8",
            "-12", "-11", "-9", "-6", "-4", "-3", "-1", "50"} |->
       CASE a = "-50" -> 0 - 50 [] a = "-20" -> 0 - 20 [] a = "-30" -> 0 - 30
         [] a = "100" -> 100 [] a = "0" -> 0 [] a = "-5" -> 0 - 5
         [] a = "-10" -> 0 - 10 [] a = "00" -> 0 [] a = "-7" -> 0 - 7
         [] a = "-8" -> 0 - 8 [] a = "-12" -> 0 - 12 [] a = "-11" -> 0 - 11
         [] a = "-9" -> 0 - 9 [] a = "-6" -> 0 - 6 [] a = "-4" -> 0 - 4
         [] a = "-3" -> 0 - 3 [] a = "-1" -> 0 - 1 [] a = "50" -> 50]

(* Day-first dates: dd/mm/yyyy as yyyymmdd.                                *)
DateAtom ==
    ("01/03/2024" :> 20240301) @@ ("05/03/2024" :> 20240305)
    @@ ("15/03/2024" :> 20240315) @@ ("02/04/2024" :> 20240402)

----------------------------------------------------------------------------
(* The files the working directory may hold.  A .csv file is its encoding  *)
(* and its lines; an .xlsx file is its sheet (column names, typed cells).  *)

Csv(enc, lines) == [ext |-> "csv", enc |-> enc, lines |-> lines,
                    columns |-> <<>>, cells |-> <<>>]
Xlsx(columns, cells) == [ext |-> "xlsx", enc |-> "bin", lines |-> <<>>,
                         columns |-> columns, cells |-> cells]
Other == [ext |-> "txt", enc |-> "utf8", lines |-> <<>>,
          columns |-> <<>>, cells |-> <<>>]

FileContent ==
    [f \in {"nubank.csv", "conta.csv", "br.csv", "exemplo.csv", "utf8sc.csv",
            "semdata.csv", "vazio.csv", "zero.csv", "fatura.xlsx",
            "semvalor.xlsx", "big.csv", "semdesc.csv", "notas.txt"} |->
      CASE f = "nubank.csv" ->
             Csv("utf8",
                 << <<"date", ",", "category", ",", "title", ",", "amount">>,
                    <<"01/03/2024", ",", "mercado", ",", "Mercado", ",", "-50">>,
                    <<"15/03/2024", ",", "transporte", ",", "Uber", ",", "-20">>,
                    <<"02/04/2024", ",", "mercado", ",", "Mercado", ",", "-30">> >>)
        [] f = "conta.csv" ->
             Csv("utf8",
                 << <<"Data", ",", "Valor", ",", "Identificador", ",", "Descrição">>,
                    <<"01/03/2024", ",", "100", ",", "id1", ",", "Salario">>,
                    <<"15/03/2024", ",", "0", ",", "id2", ",", "Ajuste">>,
                    <<"n/d", ",", "-5", ",", "id3", ",", "Tarifa">>,
                    <<"02/04/2024", ",", "-20", ",", "id4", ",", "Uber">>,
                    <<"02/04/2024", ",", ",", "id5", ",", "Estorno">> >>)
        [] f = "br.csv" ->
             Csv("latin1",
                 << <<"Data", ";", "Valor", ";", "Descrição">>,
                    <<"01/03/2024", ";", "-50", ",", "00", ";", "Mercado">>,
                    <<"15/03/2024", ";", "-12", ",", "50", ";", "Padaria">> >>)
        [] f = "exemplo.csv" ->
             Csv("utf8",
                 << <<"Data", ",", "Valor", ",", "Descrição">>,
                    <<"01/03/2024", ";", "-50", ",", "00", ";", "Mercado">> >>)
        [] f = "utf8sc.csv" ->
             Csv("utf8",
                 << <<"Data", ";", "Valor", ";", "Descrição">>,
                    <<"01/03/2024", ";", "-50", ";", "Mercado">>,
                    <<"15/03/2024", ";", "-12", ",", "50", ";", "Padaria">> >>)
        [] f = "semdata.csv" ->
             Csv("utf8",
                 << <<"valor", ",", "descrição">>,
                    <<"-10", ",", "Cafe">> >>)
        [] f = "vazio.csv" ->
             Csv("utf8", << <<"Data", ",", "Valor">> >>)
        [] f = "zero.csv" -> Csv("utf8", <<>>)
        [] f = "fatura.xlsx" ->
             Xlsx(<< <<" Data ">>, <<"VALOR ">> >>,
                  << <<Ts(20240305), Num(0 - 10)>>,
                     <<Ts(20240402), Num(50)>> >>)
        [] f = "semvalor.xlsx" ->
             Xlsx(<< <<"Date">>, <<"Title">> >>,
                  << <<Ts(20240301), Str(<<"Mercado">>)>> >>)
        [] f = "big.csv" ->
             Csv("utf8",
                 << <<"date", ",", "title", ",", "amount">>,
                    <<"05/03/2024", ",", "P01", ",", "-12">>,
                    <<"05/03/2024", ",", "P02", ",", "-11">>,
                    <<"05/03/2024", ",", "P03", ",", "-10">>,
                    <<"05/03/2024", ",", "P04", ",", "-9">>,
                    <<"05/03/2024", ",", "P05", ",", "-8">>,
                    <<"05/03/2024", ",", "P06", ",", "-7">>,
                    <<"05/03/2024", ",", "P07", ",", "-6">>,
                    <<"05/03/2024", ",", "P08", ",", "-5">>,
                    <<"05/03/2024", ",", "P09", ",", "-4">>,
                    <<"05/03/2024", ",", "P11", ",", "-3">>,
                    <<"05/03/2024", ",", "P10", ",", "-3">>,
                    <<"05/03/2024", ",", "P12", ",", "-1">>,
                    <<"05/03/2024", ",", "P12", ",", "-1">> >>)
        [] f = "semdesc.csv" ->
             Csv("utf8",
                 << <<"data", ",", "valor", ",", "descrição">>,
                    <<"01/03/2024", ",", "-7", ",">>,
                    <<"15/03/2024", ",", "-8", ",">> >>)
        [] f = "notas.txt" -> Other]

FileNames == DOMAIN FileContent

(* f.endswith('.csv') and f.endswith('.xlsx'), by the name's extension.    *)
endswith_csv(f) == FileContent[f].ext = "csv"
endswith_xlsx(f) == FileContent[f].ext = "xlsx"

----------------------------------------------------------------------------
(* pd.read_csv(path, encoding, delimiter).                                 *)

(* The fields of one line: the atoms between the occurrences of sep.       *)
RECURSIVE SplitFrom(_, _, _, _, _)
SplitFrom(line, sep, i, fields, cur) ==
    IF i > Len(line) THEN Append(fields, cur)
    ELSE IF line[i] = sep
         THEN SplitFrom(line, sep, i + 1, Append(fields, cur), <<>>)
         ELSE SplitFrom(line, sep, i + 1, fields, Append(cur, line[i]))

Split(line, sep) == SplitFrom(line, sep, 1, <<>>, <<>>)

DecodeLine(line, fileEnc, readEnc) ==
    [i \in 1..Len(line) |-> Decode(line[i], fileEnc, readEnc)]

(* UnicodeDecodeError: ISO-8859-1 bytes of a non-ASCII text are not UTF-8. *)
DecodeFails(file, readEnc) ==
    /\ readEnc = "utf8"
    /\ file.enc = "latin1"
    /\ \E i \in 1..Len(file.lines) :
         \E j \in 1..Len(file.lines[i]) : NonAscii(file.lines[i][j])

FieldsOf(file, readEnc, sep) ==
    [i \in 1..Len(file.lines) |->
       Split(DecodeLine(file.lines[i], file.enc, readEnc), sep)]

(* The number of fields the tokenizer expects from the second data line on *)
(* (the header's, or the first data line's when that one is longer).       *)
ExpectedFields(F) ==
    IF Len(F) < 2 THEN Len(F[1]) ELSE Max2(Len(F[1]), Len(F[2]))

(* EmptyDataError (no line at all) or ParserError (a later line with more  *)
(* fields than expected).                                                  *)
TokenizeFails(F) ==
    \/ Len(F) = 0
    \/ \E i \in 3..Len(F) : Len(F[i]) > ExpectedFields(F)

IsNumField(fld) == Len(fld) = 1 /\ fld[1] \in DOMAIN NumAtom

(* Field j of data line i, padded with missing values on the right.        *)
RawField(F, i, j) == IF j <= Len(F[i]) THEN F[i][j] ELSE <<>>

(* A column is numeric when every field present in it is a number.         *)
NumericColumn(F, j) ==
    \A i \in 2..Len(F) : RawField(F, i, j) = <<>> \/ IsNumField(RawField(F, i, j))

CellOf(F, i, j) ==
    LET fld == RawField(F, i, j)
    IN  IF fld = <<>> THEN NaN
        ELSE IF NumericColumn(F, j) THEN Num(NumAtom[fld[1]])
        ELSE Str(fld)

(* The DataFrame read: the header's names and, per data line, the cells of *)
(* the last Len(header) columns (leading extra columns become the index).  *)
read_csv(file, readEnc, sep) ==
    LET F == FieldsOf(file, readEnc, sep)
        raised == DecodeFails(file, readEnc) \/ TokenizeFails(F)
        h == IF raised THEN 0 ELSE Len(F[1])
        k == IF raised THEN 0 ELSE ExpectedFields(F) - h
    IN  [raised |-> raised,
         columns |-> IF raised THEN <<>> ELSE F[1],
         rows |-> IF raised THEN <<>>
                  ELSE [i \in 1..(Len(F) - 1) |->
                          [j \in 1..h |-> CellOf(F, i + 1, k + j)]]]

read_excel(file) ==
    [raised |-> FALSE, columns |-> file.columns, rows |-> file.cells]

(* Lines 63-70: UTF-8/comma first; on any exception ISO-8859-1/semicolon.  *)
read_attempts(f) ==
    LET file == FileContent[f]
        first == read_csv(file, "utf8", ",")
    IN  IF endswith_csv(f)
        THEN IF first.raised THEN read_csv(file, "latin1", ";") ELSE first
        ELSE read_excel(file)

(* What reading each file gives (the files do not change during a run).    *)
FrameOf == [f \in FileNames |-> read_attempts(f)]

ReadFile(f) == FrameOf[f]

----------------------------------------------------------------------------
(* Lines 21-35 and 76-91: column normalisation.                            *)

col_mapping ==
    ("data" :> "Data") @@ ("Data" :> "Data") @@ ("date" :> "Data")
    @@ ("valor" :> "Valor") @@ ("Valor" :> "Valor") @@ ("amount" :> "Valor")
    @@ ("descriÃ§Ã£o" :> "Descricao") @@ ("DescriÃ§Ã£o" :> "Descricao")
    @@ ("descrição" :> "Descricao") @@ ("descriçao" :> "Descricao")
    @@ ("title" :> "Descricao") @@ ("description" :> "Descricao")

(* df.columns.str.strip().str.lower()                                      *)
StripLower(name) ==
    IF Len(name) = 1 THEN <<lower(strip(name[1]))>>
    ELSE [i \in 1..Len(name) |-> lower(name[i])]

(* df.rename(columns=col_mapping): exact match of the whole name.          *)
Rename(name) ==
    IF Len(name) = 1 /\ name[1] \in DOMAIN col_mapping
    THEN <<col_mapping[name[1]]>> ELSE name

NormalizedColumns(columns) ==
    [j \in 1..Len(columns) |-> Rename(StripLower(columns[j]))]

HasColumn(cols, c) == \E j \in 1..Len(cols) : cols[j] = <<c>>

ColIndex(cols, c) == CHOOSE j \in 1..Len(cols) :
                        /\ cols[j] = <<c>>
                        /\ \A k \in 1..(j - 1) : cols[k] # <<c>>

(* Line 82: both essential columns were found.                             *)
Accepted(cols) == HasColumn(cols, "Data") /\ HasColumn(cols, "Valor")

(* Lines 84-87: df[['Data', 'Valor', 'Descricao']], with the 'N/A' default *)
(* when the file has no description column.  src records where the row was *)
(* read from (folder, file, line) and is not a column of the DataFrame.    *)
Standardize(df, folder, f) ==
    LET cols == NormalizedColumns(df.columns)
    IN  [i \in 1..Len(df.rows) |->
           [Data |-> df.rows[i][ColIndex(cols, "Data")],
            Valor |-> df.rows[i][ColIndex(cols, "Valor")],
            Descricao |-> IF HasColumn(cols, "Descricao")
                          THEN df.rows[i][ColIndex(cols, "Descricao")]
                          ELSE Str(<<"N/A">>),
            src |-> <<folder, f, i>>]]

----------------------------------------------------------------------------
(* Lines 100-113: ledger assembly.                                         *)

(* pd.to_datetime(errors='coerce', dayfirst=True) of one cell.             *)
to_datetime(cell) ==
    CASE cell.t = "ts" -> cell.n
      [] cell.t = "num" -> 19700101
      [] cell.t = "str" ->
           IF Len(cell.s) = 1 /\ cell.s[1] \in DOMAIN DateAtom
           THEN DateAtom[cell.s[1]] ELSE NaT
      [] OTHER -> NaT

RECURSIVE concat(_)
concat(frames) ==
    IF frames = <<>> THEN <<>> ELSE Head(frames) \o concat(Tail(frames))

(* sort_values(by='Data', ascending=False)                                 *)
RECURSIVE InsertByDate(_, _)
InsertByDate(sorted, row) ==
    IF sorted = <<>> THEN <<row>>
    ELSE IF Head(sorted).Data >= row.Data
         THEN <<Head(sorted)>> \o InsertByDate(Tail(sorted), row)
         ELSE <<row>> \o sorted

RECURSIVE sort_values(_)
sort_values(rows) ==
    IF rows = <<>> THEN <<>>
    ELSE InsertByDate(sort_values(SubSeq(rows, 1, Len(rows) - 1)), rows[Len(rows)])

LedgerRow(r) ==
    [Data |-> to_datetime(r.Data), Valor |-> r.Valor, Descricao |-> r.Descricao,
     Tipo_Transacao |-> "Movimentação", Categoria |-> "N/A", src |-> r.src]

(* dropna(subset=['Data'])                                                 *)
dropna(rows) == SelectSeq(rows, LAMBDA r : r.Data # NaT)

Assembled(frames) ==
    LET combined_df == concat(frames)
        parsed == [i \in 1..Len(combined_df) |-> LedgerRow(combined_df[i])]
    IN  sort_values(dropna(parsed))

----------------------------------------------------------------------------
(* The working directory: a tree of directories, each holding files.       *)

MaxDirs == 2
MaxFiles == 2

DirNames == { <<"extrato">>, <<"FATURA", "_2024">>, <<"dados">> }

(* The order in which os.walk and os.listdir list the entries.             *)
DirOrder == << <<"dados">>, <<"extrato">>, <<"FATURA", "_2024">> >>

FileOrder ==
    << "big.csv", "br.csv", "conta.csv", "exemplo.csv", "fatura.xlsx",
       "notas.txt", "nubank.csv", "semdata.csv", "semdesc.csv",
       "semvalor.xlsx", "utf8sc.csv", "vazio.csv", "zero.csv" >>

(* Line 41-42: 'extrato' in d.lower() or 'fatura' in d.lower()             *)
Matches(d) == \E i \in 1..Len(d) : lower(d[i]) \in {"extrato", "fatura"}

RECURSIVE TreeShapes(_)
TreeShapes(k) ==
    IF k = 0 THEN { {} }
    ELSE LET prev == TreeShapes(k - 1)
         IN  prev \cup
             { D \cup {Append(p, n)} :
                 <<D, p, n>> \in
                   { x \in prev \X (UNION prev \cup {<<>>}) \X DirNames :
                       x[2] = <<>> \/ x[2] \in x[1] } }

(* The files placed in the trees, in listing order.                        *)
DiskFiles ==
    << "br.csv", "conta.csv", "exemplo.csv", "fatura.xlsx", "notas.txt",
       "nubank.csv", "semdata.csv", "vazio.csv", "zero.csv" >>

(* The sets of at most k numbers of 1..n.                                  *)
RECURSIVE Choices(_, _)
Choices(k, n) ==
    IF k = 0 \/ n = 0 THEN { {} }
    ELSE Choices(k, n - 1) \cup { S \cup {n} : S \in Choices(k - 1, n - 1) }

(* The directories of a tree, one after the other.                         *)
RECURSIVE DirSeq(_)
DirSeq(D) ==
    IF D = {} THEN <<>>
    ELSE LET d == CHOOSE x \in D : TRUE IN <<d>> \o DirSeq(D \ {d})

(* Place number (i - 1) * Len(DiskFiles) + j is file j in directory i.     *)
Placement(D, S) ==
    LET dirs == DirSeq(D)
    IN  { << dirs[((n - 1) \div Len(DiskFiles)) + 1],
             DiskFiles[((n - 1) % Len(DiskFiles)) + 1] >> : n \in S }

(* The directories directly below path p, in listing order.                *)
SubDirs(tree, p) == SelectSeq(DirOrder, LAMBDA d : Append(p, d) \in tree.dirs)

(* Lines 38-43: os.walk('.') top-down; every matching directory NAME is    *)
(* appended, without the root it was found under.                          *)
RECURSIVE os_walk(_, _, _)
RECURSIVE walk_each(_, _, _, _)
os_walk(tree, root, depth) ==
    LET dirs == SubDirs(tree, root)
    IN  SelectSeq(dirs, Matches) \o walk_each(tree, root, dirs, depth)
walk_each(tree, root, dirs, depth) ==
    IF dirs = <<>> \/ depth = 0 THEN <<>>
    ELSE os_walk(tree, Append(root, Head(dirs)), depth - 1)
         \o walk_each(tree, root, Tail(dirs), depth)

(* os.listdir(folder_path): folder_path is relative to the working         *)
(* directory, so it names the top-level directory of that name.            *)
listdir_raises(tree, folder_path) == <<folder_path>> \notin tree.dirs

listdir(tree, folder_path) ==
    SelectSeq(FileOrder, LAMBDA f : << <<folder_path>>, f >> \in tree.at)

(* Line 50 *)
all_files_of(tree, folder_path) ==
    SelectSeq(listdir(tree, folder_path),
              LAMBDA f : endswith_csv(f) \/ endswith_xlsx(f))

----------------------------------------------------------------------------
(* main, lines 296-353: the widgets and the filtered ledger.               *)

IsNum(cell) == cell.t = "num"

Min(S) == CHOOSE x \in S : \A y \in S : x <= y
Max(S) == CHOOSE x \in S : \A y \in S : x >= y

(* The numeric amounts of a DataFrame (min and max skip missing values).   *)
Amounts(rows) == {rows[i].Valor.n : i \in {k \in 1..Len(rows) : IsNum(rows[k].Valor)}}

Dates(rows) == {rows[i].Data : i \in 1..Len(rows)}

(* df['Descricao'].unique()                                                *)
unique_desc(rows) == {rows[i].Descricao : i \in 1..Len(rows)}

(* The script cannot set its widgets up: the ledger has no row (line 299), *)
(* sorted() compares a missing description with a text (line 328), or an   *)
(* amount is text or no amount is a number (lines 346-353).                *)
main_raises(ledger) ==
    \/ ledger = <<>>
    \/ \E c, d \in unique_desc(ledger) : c.t = "nan" /\ d.t = "str"
    \/ \E i \in 1..Len(ledger) : ledger[i].Valor.t = "str"
    \/ Amounts(ledger) = {}

(* The days st.date_input offers: those from min_date to max_date.         *)
Calendar == Range(DateAtom)

Todos == Str(<<"Todos">>)

(* The stops the slider can be set to, between min_val and max_val.        *)
SliderStops(ledger) ==
    {Min(Amounts(ledger)), Max(Amounts(ledger))}
    \cup {v \in {0} : Min(Amounts(ledger)) <= v /\ v <= Max(Amounts(ledger))}

(* Every combination of widget values the user can select (lines 321-352). *)
Selections(ledger) ==
    [start_date : {d \in Calendar : Min(Dates(ledger)) <= d /\ d <= Max(Dates(ledger))},
     end_date : {d \in Calendar : Min(Dates(ledger)) <= d /\ d <= Max(Dates(ledger))},
     selected_type : {"Todos"} \cup {ledger[i].Tipo_Transacao : i \in 1..Len(ledger)},
     selected_establishment : {Todos} \cup unique_desc(ledger),
     val_range : {v \in SliderStops(ledger) \X SliderStops(ledger) : v[1] <= v[2]}]

(* The date filter applied whatever the order of the two dates.            *)
date_filter_unconditional(ledger, p) ==
    SelectSeq(ledger, LAMBDA r : r.Data >= p.start_date /\ r.Data <= p.end_date)

(* Lines 332-336 *)
date_filter(ledger, p) ==
    IF p.start_date > p.end_date
    THEN ledger
    ELSE SelectSeq(ledger, LAMBDA r : r.Data >= p.start_date /\ r.Data <= p.end_date)

(* Line 339: df_filtered['Valor'] != 0 (a missing amount is not 0).        *)
nonzero(rows) == SelectSeq(rows, LAMBDA r : ~(IsNum(r.Valor) /\ r.Valor.n = 0))

(* Lines 341-342 *)
type_filter(rows, p) ==
    IF p.selected_type # "Todos"
    THEN SelectSeq(rows, LAMBDA r : r.Tipo_Transacao = p.selected_type)
    ELSE rows

(* Lines 343-344 (a missing description equals nothing, itself included).  *)
establishment_filter(rows, p) ==
    IF p.selected_establishment # Todos
    THEN SelectSeq(rows, LAMBDA r : r.Descricao.t # "nan"
                                    /\ r.Descricao = p.selected_establishment)
    ELSE rows

(* The amount filter with the two ends of the range left out.              *)
value_filter_exclusive(rows, p) ==
    SelectSeq(rows, LAMBDA r : /\ IsNum(r.Valor)
                               /\ r.Valor.n > p.val_range[1]
                               /\ r.Valor.n < p.val_range[2])

(* Line 353 (a missing amount is within no range).                         *)
value_filter(rows, p) ==
    SelectSeq(rows, LAMBDA r : /\ IsNum(r.Valor)
                               /\ r.Valor.n >= p.val_range[1]
                               /\ r.Valor.n <= p.val_range[2])

Filtered(ledger, p) ==
    value_filter(
      establishment_filter(type_filter(nonzero(date_filter(ledger, p)), p), p), p)

----------------------------------------------------------------------------
(* Lines 150-220 and 434-444: the aggregations.                            *)

TopN == 10

abs(x) == IF x < 0 THEN 0 - x ELSE x

(* df[df['Valor'] < 0]: a missing amount is not below zero.                *)
Negative(rows) == SelectSeq(rows, LAMBDA r : IsNum(r.Valor) /\ r.Valor.n < 0)

(* Series.sum(): missing values are skipped.                               *)
RECURSIVE SumValor(_)
SumValor(rows) ==
    IF rows = <<>> THEN 0
    ELSE (IF IsNum(Head(rows).Valor) THEN Head(rows).Valor.n ELSE 0)
         + SumValor(Tail(rows))

(* The elements of a set of integers, ascending (groupby sorts its keys).  *)
RECURSIVE Ascending(_)
Ascending(S) == IF S = {} THEN <<>> ELSE <<Min(S)>> \o Ascending(S \ {Min(S)})

(* The descriptions in the order groupby sorts them (text order).          *)
DescOrder ==
    << <<"Ajuste">>, <<"Cafe">>, <<"Estorno">>, <<"Mercado">>, <<"N/A">>,
       <<"P01">>, <<"P02">>, <<"P03">>, <<"P04">>, <<"P05">>, <<"P06">>,
       <<"P07">>, <<"P08">>, <<"P09">>, <<"P10">>, <<"P11">>, <<"P12">>,
       <<"Padaria">>, <<"Salario">>, <<"Tarifa">>, <<"Uber">> >>

(* groupby('Descricao'): the keys present, sorted; a missing description   *)
(* is no key (dropna), so its rows are in no group.                        *)
DescKeys(rows) ==
    SelectSeq(DescOrder,
              LAMBDA k : \E i \in 1..Len(rows) : rows[i].Descricao = Str(k))

GroupByDesc(rows) ==
    LET keys == DescKeys(rows)
    IN  [i \in 1..Len(keys) |->
           [key |-> keys[i],
            Valor |-> SumValor(SelectSeq(rows, LAMBDA r : r.Descricao = Str(keys[i])))]]

Mes(d) == d \div 100

GroupByMes(rows) ==
    LET keys == Ascending({Mes(rows[i].Data) : i \in 1..Len(rows)})
    IN  [i \in 1..Len(keys) |->
           [key |-> keys[i],
            Valor |-> SumValor(SelectSeq(rows, LAMBDA r : Mes(r.Data) = keys[i]))]]

GroupByData(rows) ==
    LET keys == Ascending(Dates(rows))
    IN  [i \in 1..Len(keys) |->
           [key |-> keys[i],
            Valor |-> SumValor(SelectSeq(rows, LAMBDA r : r.Data = keys[i]))]]

CategoriaOrder == << "N/A" >>

GroupByCategoria(rows) ==
    LET keys == SelectSeq(CategoriaOrder,
                          LAMBDA k : \E i \in 1..Len(rows) : rows[i].Categoria = k)
    IN  [i \in 1..Len(keys) |->
           [key |-> keys[i],
            Valor |-> SumValor(SelectSeq(rows, LAMBDA r : r.Categoria = keys[i]))]]

(* ['Valor'].abs() *)
AbsValor(groups) ==
    [i \in 1..Len(groups) |-> [key |-> groups[i].key, Valor |-> abs(groups[i].Valor)]]

RECURSIVE InsertAsc(_, _)
InsertAsc(sorted, g) ==
    IF sorted = <<>> THEN <<g>>
    ELSE IF Head(sorted).Valor <= g.Valor
         THEN <<Head(sorted)>> \o InsertAsc(Tail(sorted), g)
         ELSE <<g>> \o sorted

RECURSIVE SortAsc(_)
SortAsc(groups) ==
    IF groups = <<>> THEN <<>>
    ELSE InsertAsc(SortAsc(SubSeq(groups, 1, Len(groups) - 1)), groups[Len(groups)])

RECURSIVE InsertDesc(_, _)
InsertDesc(sorted, g) ==
    IF sorted = <<>> THEN <<g>>
    ELSE IF Head(sorted).Valor >= g.Valor
         THEN <<Head(sorted)>> \o InsertDesc(Tail(sorted), g)
         ELSE <<g>> \o sorted

RECURSIVE SortDesc(_)
SortDesc(groups) ==
    IF groups = <<>> THEN <<>>
    ELSE InsertDesc(SortDesc(SubSeq(groups, 1, Len(groups) - 1)), groups[Len(groups)])

(* Series.nlargest(n): the n largest instead.                              *)
nlargest(groups, n) ==
    SubSeq(SortDesc(groups), 1, IF Len(groups) < n THEN Len(groups) ELSE n)

(* Series.nsmallest(n): the n smallest, ties in order of appearance.       *)
nsmallest(groups, n) ==
    SubSeq(SortAsc(groups), 1, IF Len(groups) < n THEN Len(groups) ELSE n)

Figure(title, data) ==
    [kind |-> "figure", title |-> title, columns |-> <<>>, data |-> data]

Table(columns, data) ==
    [kind |-> "table", title |-> "", columns |-> columns, data |-> data]

SemGastos == Figure("Sem dados de gastos para o período", <<>>)
SemFluxo == Figure("Sem dados de fluxo para o período", <<>>)

(* Line 184 *)
RankingSentinel ==
    Table(<<"Estabelecimento", "Valor">>, << [key |-> <<"N/A">>, Valor |-> 0] >>)

(* Lines 150-164 *)
create_total_by_month_plot(rows) ==
    IF Negative(rows) = <<>> THEN SemGastos
    ELSE Figure("Gastos Totais por Mês", AbsValor(GroupByMes(Negative(rows))))

(* Lines 166-178 *)
create_top_establishments_plot(rows) ==
    IF Negative(rows) = <<>> THEN SemGastos
    ELSE Figure("Top 10 Estabelecimentos de Gastos",
                AbsValor(nsmallest(GroupByDesc(Negative(rows)), TopN)))

(* Lines 180-190 *)
create_ranking_by_description(rows) ==
    IF Negative(rows) = <<>> THEN RankingSentinel
    ELSE Table(<<"Estabelecimento", "Valor (R$)">>,
               SortDesc(AbsValor(GroupByDesc(Negative(rows)))))

(* Lines 193-203 *)
create_category_distribution_plot(rows) ==
    LET df_filtered == SelectSeq(Negative(rows),
                                 LAMBDA r : r.Tipo_Transacao # "Pagamento")
    IN  IF df_filtered = <<>> THEN SemGastos
        ELSE Figure("Distribuição de Gastos por Categoria",
                    AbsValor(GroupByCategoria(df_filtered)))

(* The daily flow without the df.empty branch of line 206.                 *)
create_flow_plot_unguarded(rows) ==
    Figure("Fluxo de Entrada e Saída (Diário)", GroupByData(rows))

(* Lines 205-220 *)
create_flow_plot(rows) ==
    IF rows = <<>> THEN SemFluxo
    ELSE Figure("Fluxo de Entrada e Saída (Diário)", GroupByData(rows))

(* sort_values('Data'), ascending *)
RECURSIVE InsertByDateAsc(_, _)
InsertByDateAsc(sorted, row) ==
    IF sorted = <<>> THEN <<row>>
    ELSE IF Head(sorted).Data <= row.Data
         THEN <<Head(sorted)>> \o InsertByDateAsc(Tail(sorted), row)
         ELSE <<row>> \o sorted

RECURSIVE sort_by_date_asc(_)
sort_by_date_asc(rows) ==
    IF rows = <<>> THEN <<>>
    ELSE InsertByDateAsc(sort_by_date_asc(SubSeq(rows, 1, Len(rows) - 1)),
                         rows[Len(rows)])

(* Lines 436-438: the running balance; no branch for an empty subset.      *)
fig_saldo(rows) ==
    LET sorted == sort_by_date_asc(rows)
    IN  Figure("Saldo Acumulado ao Longo do Tempo",
               [i \in 1..Len(sorted) |->
                  [key |-> sorted[i].Data, Valor |-> SumValor(SubSeq(sorted, 1, i))]])

(* Line 443: the histogram of the amounts; no branch for an empty subset.  *)
fig_hist(rows) ==
    Figure("Distribuição dos Valores das Transações",
           [i \in 1..Len(rows) |-> [key |-> i, Valor |-> rows[i].Valor.n]])

(* Lines 421-444: everything main renders from the filtered ledger.        *)
Rendered(rows) ==
    [total_plot |-> create_total_by_month_plot(rows),
     establishments_plot |-> create_top_establishments_plot(rows),
     ranking |-> create_ranking_by_description(rows),
     category_plot |-> create_category_distribution_plot(rows),
     flow_plot |-> create_flow_plot(rows),
     saldo |-> fig_saldo(rows),
     hist |-> fig_hist(rows)]

NotRendered == [x \in {} |-> 0]

----------------------------------------------------------------------------
VARIABLES
    fs,              \* the working directory tree (never written)
    pc,              \* position in the script run
    found_folders,   \* line 38
    folder_q,        \* the folders the loop of line 49 has still to visit
    folder_path,     \* the loop variable of line 49
    file_q,          \* the files the loop of line 56 has still to read
    all_dataframes,  \* line 19
    tried,           \* the file paths logged at line 60
    st_msgs,         \* st.error / st.warning shown
    log,             \* logging.warning / logging.error records
    df,              \* the ledger returned at line 113
    params,          \* the widget values of this run (lines 321-352)
    df_filtered,     \* lines 331-353; also the exported CSV (line 409)
    figs,            \* the figures and tables rendered (lines 421-444)
    session          \* the interactions of the browser session so far

loadvars == <<found_folders, folder_q, folder_path, file_q, all_dataframes,
              tried, st_msgs, log, df>>

NoFolder == <<>>

LoadInit ==
    /\ found_folders = <<>>
    /\ folder_q = <<>>
    /\ folder_path = NoFolder
    /\ file_q = <<>>
    /\ all_dataframes = <<>>
    /\ tried = <<>>
    /\ st_msgs = {}
    /\ log = {}
    /\ df = <<>>

NoParams == [x \in {} |-> 0]

MainInit ==
    /\ params = NoParams
    /\ df_filtered = <<>>
    /\ figs = NotRendered
    /\ session = <<>>

mainvars == <<params, df_filtered, figs, session>>

(* Lines 38-47, no folder found: st.error, st.stop.                        *)
WalkNone ==
    /\ pc = "walk"
    /\ os_walk(fs, <<>>, MaxDirs) = <<>>
    /\ st_msgs' = st_msgs \cup {"error: nenhuma pasta"}
    /\ pc' = "stopped"
    /\ UNCHANGED mainvars
    /\ UNCHANGED <<fs, found_folders, folder_q, folder_path, file_q,
                   all_dataframes, tried, log, df>>

(* Lines 38-45, folders found.                                             *)
WalkFound ==
    /\ pc = "walk"
    /\ os_walk(fs, <<>>, MaxDirs) # <<>>
    /\ found_folders' = os_walk(fs, <<>>, MaxDirs)
    /\ folder_q' = os_walk(fs, <<>>, MaxDirs)
    /\ pc' = "folders"
    /\ UNCHANGED mainvars
    /\ UNCHANGED <<fs, folder_path, file_q, all_dataframes, tried, st_msgs,
                   log, df>>

(* Line 50: os.listdir raises FileNotFoundError, outside any try.          *)
ListDirRaises ==
    /\ pc = "folders"
    /\ folder_q # <<>>
    /\ listdir_raises(fs, Head(folder_q))
    /\ folder_path' = Head(folder_q)
    /\ folder_q' = Tail(folder_q)
    /\ pc' = "raised"
    /\ UNCHANGED mainvars
    /\ UNCHANGED <<fs, found_folders, file_q, all_dataframes, tried, st_msgs,
                   log, df>>

(* Lines 50-54: no .csv/.xlsx in the folder: st.warning, continue.         *)
FolderWithoutFiles ==
    /\ pc = "folders"
    /\ folder_q # <<>>
    /\ ~listdir_raises(fs, Head(folder_q))
    /\ all_files_of(fs, Head(folder_q)) = <<>>
    /\ folder_path' = Head(folder_q)
    /\ folder_q' = Tail(folder_q)
    /\ st_msgs' = st_msgs \cup {"warning: pasta sem arquivos"}
    /\ UNCHANGED mainvars
    /\ UNCHANGED <<fs, pc, found_folders, file_q, all_dataframes, tried,
                   log, df>>

(* Lines 50-56: the folder's files are about to be read.                   *)
FolderWithFiles ==
    /\ pc = "folders"
    /\ folder_q # <<>>
    /\ ~listdir_raises(fs, Head(folder_q))
    /\ all_files_of(fs, Head(folder_q)) # <<>>
    /\ folder_path' = Head(folder_q)
    /\ folder_q' = Tail(folder_q)
    /\ file_q' = all_files_of(fs, Head(folder_q))
    /\ pc' = "files"
    /\ UNCHANGED mainvars
    /\ UNCHANGED <<fs, found_folders, all_dataframes, tried, st_msgs, log, df>>

(* The bookkeeping every iteration of the loop of line 56 shares.          *)
FileStep(f) ==
    /\ pc = "files"
    /\ file_q # <<>>
    /\ f = Head(file_q)
    /\ tried' = Append(tried, <<folder_path, f>>)
    /\ file_q' = Tail(file_q)
    /\ UNCHANGED <<fs, found_folders, folder_q, folder_path, st_msgs, df>>
    /\ UNCHANGED mainvars

(* The loop of line 56 goes on to the next file, or the loop of line 49 to *)
(* the next folder.                                                        *)
NextFile == pc' = IF Tail(file_q) = <<>> THEN "folders" ELSE "files"

(* Lines 63-70 and 93-94: both read attempts raised; logging.error.        *)
FileUnreadable ==
    \E f \in FileNames :
      /\ FileStep(f)
      /\ ReadFile(f).raised
      /\ log' = log \cup {<<"error", folder_path, f>>}
      /\ NextFile
      /\ UNCHANGED all_dataframes

(* Lines 72-74: read, but empty; logging.warning, continue.                *)
FileEmpty ==
    \E f \in FileNames :
      /\ FileStep(f)
      /\ ~ReadFile(f).raised
      /\ ReadFile(f).rows = <<>>
      /\ log' = log \cup {<<"warning: vazio", folder_path, f>>}
      /\ NextFile
      /\ UNCHANGED all_dataframes

(* Lines 76-89: the file has both essential columns and is appended.       *)
FileAccepted ==
    \E f \in FileNames :
      /\ FileStep(f)
      /\ ~ReadFile(f).raised
      /\ ReadFile(f).rows # <<>>
      /\ Accepted(NormalizedColumns(ReadFile(f).columns))
      /\ all_dataframes' =
            Append(all_dataframes, Standardize(ReadFile(f), folder_path, f))
      /\ NextFile
      /\ UNCHANGED log

(* The file lacking a column ends the run instead of being skipped.        *)
FileIgnoredIsFatal ==
    \E f \in FileNames :
      /\ FileStep(f)
      /\ ~ReadFile(f).raised
      /\ ReadFile(f).rows # <<>>
      /\ ~Accepted(NormalizedColumns(ReadFile(f).columns))
      /\ pc' = "stopped"
      /\ UNCHANGED <<all_dataframes, log>>

(* Lines 90-91: an essential column is missing; logging.warning.           *)
FileIgnored ==
    \E f \in FileNames :
      /\ FileStep(f)
      /\ ~ReadFile(f).raised
      /\ ReadFile(f).rows # <<>>
      /\ ~Accepted(NormalizedColumns(ReadFile(f).columns))
      /\ log' = log \cup {<<"warning: ignorado", folder_path, f>>}
      /\ NextFile
      /\ UNCHANGED all_dataframes

(* Lines 96-98: nothing was loaded: st.error, st.stop.                     *)
NoValidData ==
    /\ pc = "folders"
    /\ folder_q = <<>>
    /\ all_dataframes = <<>>
    /\ st_msgs' = st_msgs \cup {"error: nenhum dado valido"}
    /\ pc' = "stopped"
    /\ UNCHANGED mainvars
    /\ UNCHANGED <<fs, found_folders, folder_q, folder_path, file_q,
                   all_dataframes, tried, log, df>>

(* Lines 100-113: the ledger is assembled and returned.                    *)
ReturnLedger ==
    /\ pc = "folders"
    /\ folder_q = <<>>
    /\ all_dataframes # <<>>
    /\ df' = Assembled(all_dataframes)
    /\ pc' = "main"
    /\ UNCHANGED mainvars
    /\ UNCHANGED <<fs, found_folders, folder_q, folder_path, file_q,
                   all_dataframes, tried, st_msgs, log>>

vars == <<fs, pc, loadvars, mainvars>>

(* A script run up to the return of load_and_process_data, over every      *)
(* working directory within the bounds.                                    *)
Init ==
    /\ \E D \in TreeShapes(MaxDirs) :
         \E S \in Choices(MaxFiles, Cardinality(D) * Len(DiskFiles)) :
           fs = [dirs |-> D, at |-> Placement(D, S)]
    /\ pc = "walk"
    /\ LoadInit
    /\ MainInit

Next ==
    \/ WalkNone
    \/ WalkFound
    \/ ListDirRaises
    \/ FolderWithoutFiles
    \/ FolderWithFiles
    \/ FileUnreadable
    \/ FileEmpty
    \/ FileAccepted
    \/ FileIgnored
    \/ NoValidData
    \/ ReturnLedger

Spec == Init /\ [][Next]_vars

----------------------------------------------------------------------------
(* main from line 296 on: the state load_and_process_data leaves when the  *)
(* working directory holds one folder "extrato" with some files.           *)

MaxLedgerFiles == 2

(* The interactions followed in one browser session.                       *)
MaxInteractions == 2

RECURSIVE FileSets(_)
FileSets(k) ==
    IF k = 0 THEN { {} }
    ELSE LET prev == FileSets(k - 1)
         IN  prev \cup { S \cup {f} : <<S, f>> \in prev \X FileNames }

Extrato == <<"extrato">>

FlatTree(S) == [dirs |-> {<<Extrato>>}, at |-> {<< <<Extrato>>, f >> : f \in S}]

IsAccepted(f) ==
    /\ ~ReadFile(f).raised
    /\ ReadFile(f).rows # <<>>
    /\ Accepted(NormalizedColumns(ReadFile(f).columns))

(* all_dataframes after the loop of lines 56-94 over the listed files.     *)
RECURSIVE FramesOf(_)
FramesOf(files) ==
    IF files = <<>> THEN <<>>
    ELSE (IF IsAccepted(Head(files))
          THEN << Standardize(ReadFile(Head(files)), Extrato, Head(files)) >>
          ELSE <<>>)
         \o FramesOf(Tail(files))

LogOf(files) ==
    { <<(IF ReadFile(files[i]).raised THEN "error"
         ELSE IF ReadFile(files[i]).rows = <<>> THEN "warning: vazio"
         ELSE "warning: ignorado"), Extrato, files[i]>> :
        i \in {k \in 1..Len(files) : ~IsAccepted(files[k])} }

(* Lines 13-113 on a working directory whose only folder is "extrato".     *)
load_and_process_data(tree) == Assembled(FramesOf(all_files_of(tree, Extrato)))

InitMain ==
    \E S \in FileSets(MaxLedgerFiles) :
      LET files == all_files_of(FlatTree(S), Extrato)
      IN  /\ FramesOf(files) # <<>>
          /\ fs = FlatTree(S)
          /\ pc = "main"
          /\ found_folders = <<Extrato>>
          /\ folder_q = <<>>
          /\ folder_path = Extrato
          /\ file_q = <<>>
          /\ all_dataframes = FramesOf(files)
          /\ tried = [i \in 1..Len(files) |-> <<Extrato, files[i]>>]
          /\ st_msgs = {}
          /\ log = LogOf(files)
          /\ df = load_and_process_data(FlatTree(S))
          /\ MainInit

(* Lines 299-353: the widgets cannot be set up or the filters cannot be    *)
(* evaluated on this ledger: the script run ends in an exception.          *)
MainRaises ==
    /\ pc = "main"
    /\ main_raises(df)
    /\ pc' = "main_raised"
    /\ UNCHANGED <<fs, loadvars, mainvars>>

(* Lines 299-449: the user's selections filter the ledger; the start date  *)
(* after the end date gets a warning; the aggregations are rendered.       *)
Render ==
    /\ pc = "main"
    /\ ~main_raises(df)
    /\ Len(session) < MaxInteractions
    /\ \E p \in Selections(df) :
         LET view == Filtered(df, p)
         IN  /\ params' = p
             /\ session' = Append(session, IF p.start_date > p.end_date
                                           THEN "invalid range" ELSE "valid range")
             /\ df_filtered' = view
             /\ figs' = Rendered(view)
             /\ st_msgs' = IF p.start_date > p.end_date
                           THEN st_msgs \cup {"warning: data de inicio maior"}
                           ELSE st_msgs
    /\ pc' = "rendered"
    /\ UNCHANGED <<fs, found_folders, folder_q, folder_path, file_q,
                   all_dataframes, tried, log, df>>

(* The script re-executed with the ledger replaced by the view of the      *)
(* previous run.                                                           *)
RerunOnFilteredLedger ==
    /\ pc = "rendered"
    /\ Len(session) < MaxInteractions
    /\ pc' = "main"
    /\ df' = df_filtered
    /\ st_msgs' = {}
    /\ params' = NoParams
    /\ df_filtered' = <<>>
    /\ figs' = NotRendered
    /\ UNCHANGED <<fs, found_folders, folder_q, folder_path, file_q,
                   all_dataframes, tried, log, session>>

(* Any interaction with a widget re-executes the script from its first     *)
(* line: load_and_process_data reads the working directory again (line     *)
(* 296; nothing is cached), and the messages and the view of the previous  *)
(* run are gone.  No line of the script writes a file.  The session is     *)
(* followed for MaxInteractions interactions.                              *)
Rerun ==
    /\ pc = "rendered"
    /\ Len(session) < MaxInteractions
    /\ pc' = "main"
    /\ df' = load_and_process_data(fs)
    /\ st_msgs' = {}
    /\ params' = NoParams
    /\ df_filtered' = <<>>
    /\ figs' = NotRendered
    /\ UNCHANGED <<fs, found_folders, folder_q, folder_path, file_q,
                   all_dataframes, tried, log, session>>

NextMain ==
    \/ MainRaises
    \/ Render
    \/ Rerun

SpecMain == InitMain /\ [][NextMain]_vars

----------------------------------------------------------------------------
(* What the claims speak about.                                            *)

(* load_and_process_data has ended: by st.stop, by an exception, or by     *)
(* returning the ledger to main.                                           *)
LoadEnded == pc \in {"stopped", "raised", "main", "main_raised", "rendered"}

LedgerReturned == pc \in {"main", "main_raised", "rendered"}

(* The directories of the tree, at any depth, whose own name matches.      *)
MatchingDirs == {d \in fs.dirs : Matches(d[Len(d)])}

(* The .csv/.xlsx files inside directory d.                                *)
DataFilesIn(d) ==
    {f \in FileNames : <<d, f>> \in fs.at /\ (endswith_csv(f) \/ endswith_xlsx(f))}

(* The file can be read and has a Date and an Amount column.               *)
YieldsBoth(f) ==
    ~ReadFile(f).raised /\ Accepted(NormalizedColumns(ReadFile(f).columns))

(* C1: load_and_process_data ends in the terminal error exactly when no    *)
(* matching directory exists, or the matching directories hold no          *)
(* .csv/.xlsx file, or no file yields both a Date and an Amount column (a  *)
(* file without any data row is read as yielding nothing); in every other  *)
(* case it returns a ledger.                                               *)
C1_TerminalErrorExactlyInThreeCases ==
    LoadEnded =>
      LET case1 == MatchingDirs = {}
          case2 == /\ MatchingDirs # {}
                   /\ \A d \in MatchingDirs : DataFilesIn(d) = {}
          case3 == /\ \E d \in MatchingDirs : DataFilesIn(d) # {}
                   /\ \A d \in MatchingDirs : \A f \in DataFilesIn(d) : ~IsAccepted(f)
      IN  IF case1 \/ case2 \/ case3
          THEN pc = "stopped" /\ figs = NotRendered
               /\ \E m \in st_msgs : m \in {"error: nenhuma pasta",
                                            "error: nenhum dado valido"}
          ELSE LedgerReturned

(* The directory and file of every read logged at line 60: folder_path is  *)
(* resolved against the working directory.                                 *)
ReadLocations == { << <<tried[k][1]>>, tried[k][2] >> : k \in 1..Len(tried) }

(* C2: a file that lacks the Date or the Amount column after header        *)
(* normalisation has no row in the ledger, makes no exception escape (the  *)
(* only exception that ends the load is os.listdir's, for a folder none of *)
(* whose files was read), does not stop the run (st.stop comes only when   *)
(* nothing at all was accepted), and every other accepted file of the run  *)
(* still has its rows with a parsable date in the returned ledger.         *)
C2_FileWithoutColumnsIsSkipped ==
    pc \in {"files", "folders", "raised", "stopped", "main"} =>
    \A k \in 1..Len(tried) :
      LET folder == tried[k][1]
          f == tried[k][2]
      IN  ~YieldsBoth(f) =>
            /\ \A i \in 1..Len(all_dataframes) :
                 \A j \in 1..Len(all_dataframes[i]) :
                   SubSeq(all_dataframes[i][j].src, 1, 2) # <<folder, f>>
            /\ \A j \in 1..Len(df) : SubSeq(df[j].src, 1, 2) # <<folder, f>>
            /\ pc = "raised" =>
                 /\ listdir_raises(fs, folder_path)
                 /\ folder_path # folder
            /\ pc = "stopped" => all_dataframes = <<>>
            /\ pc = "main" =>
                 \A m \in 1..Len(tried) :
                   LET g == tried[m][2]
                   IN  (YieldsBoth(g) /\ ReadFile(g).rows # <<>>) =>
                         \A i \in 1..Len(ReadFile(g).rows) :
                           LET r == Standardize(ReadFile(g), tried[m][1], g)[i]
                           IN  to_datetime(r.Data) # NaT =>
                                 \E j \in 1..Len(df) : df[j] = LedgerRow(r)

(* C2's case: a ledger was returned by a run that skipped a file lacking a *)
(* column and accepted another file.                                       *)
C2_Witness ==
    /\ pc = "main"
    /\ df # <<>>
    /\ \E k \in 1..Len(tried) :
         /\ ~ReadFile(tried[k][2]).raised
         /\ ReadFile(tried[k][2]).rows # <<>>
         /\ ~YieldsBoth(tried[k][2])
    /\ \E k \in 1..Len(tried) : YieldsBoth(tried[k][2])

(* C3: the files read are those of every matching directory of the tree,   *)
(* each at its own location, and no matching directory aborts the run.     *)
C3_EveryMatchingDirIsReadWhereItIs ==
    /\ pc # "raised"
    /\ (LoadEnded /\ pc # "raised") =>
         ReadLocations = UNION { {<<d, f>> : f \in DataFilesIn(d)} : d \in MatchingDirs }

----------------------------------------------------------------------------
(* The filter predicates, row by row.                                      *)

DateInRange(r, p) == p.start_date <= r.Data /\ r.Data <= p.end_date

TypeSelected(r, p) == p.selected_type = "Todos" \/ r.Tipo_Transacao = p.selected_type

(* A missing description equals no selection.                              *)
PayeeSelected(r, p) ==
    \/ p.selected_establishment = Todos
    \/ (r.Descricao.t = "str" /\ r.Descricao = p.selected_establishment)

(* A missing amount is within no range.                                    *)
AmountInRange(r, p) ==
    r.Valor.t = "num" /\ p.val_range[1] <= r.Valor.n /\ r.Valor.n <= p.val_range[2]

AmountIsZero(r) == r.Valor.t = "num" /\ r.Valor.n = 0

InvalidRange == pc = "rendered" /\ params.start_date > params.end_date

ValidRange == pc = "rendered" /\ params.start_date <= params.end_date

DateWarning == "warning: data de inicio maior" \in st_msgs

(* The type and payee selectors and the amount slider are as the script    *)
(* first shows them: 'Todos', 'Todos', and the whole range of amounts.     *)
OtherWidgetsUntouched ==
    /\ params.selected_type = "Todos"
    /\ params.selected_establishment = Todos
    /\ params.val_range = <<Min(Amounts(df)), Max(Amounts(df))>>

(* C4 as stated: with the start date after the end date a warning is shown *)
(* and the view excludes no ledger row (checked where it is most likely to *)
(* hold: with the other three widgets left as first shown).                *)
C4_InvalidRangeExcludesNoRow ==
    (InvalidRange /\ OtherWidgetsUntouched) => (DateWarning /\ df_filtered = df)

(* C4 amended: with the start date after the end date a warning is shown   *)
(* and only the date predicate is dropped: the view is exactly the ledger  *)
(* rows with a non-zero amount that satisfy the type, payee and amount     *)
(* selections, so no row is excluded because of its date.                  *)
C4_InvalidRangeDropsOnlyTheDateFilter ==
    InvalidRange =>
      /\ DateWarning
      /\ df_filtered =
           SelectSeq(df, LAMBDA r : /\ ~AmountIsZero(r)
                                    /\ TypeSelected(r, params)
                                    /\ PayeeSelected(r, params)
                                    /\ AmountInRange(r, params))

(* C4's case: an invalid range whose view keeps rows the dates would have  *)
(* excluded, and excludes others for their amount or payee.                *)
C4_Witness ==
    /\ InvalidRange
    /\ df_filtered # <<>>
    /\ Len(df_filtered) < Len(df)

(* C9 as stated: with start <= end the filtered ledger (the exported CSV)  *)
(* is exactly the ledger rows satisfying the four filter predicates.       *)
C9_ViewIsExactlyTheFourPredicates ==
    ValidRange =>
      df_filtered =
        SelectSeq(df, LAMBDA r : /\ DateInRange(r, params)
                                 /\ TypeSelected(r, params)
                                 /\ PayeeSelected(r, params)
                                 /\ AmountInRange(r, params))

(* C9 amended: with start <= end the filtered ledger (the exported CSV) is *)
(* exactly the ledger rows whose amount is not zero and that satisfy the   *)
(* four filter predicates.                                                 *)
C9_ViewIsTheFourPredicatesWithoutZeroAmounts ==
    ValidRange =>
      df_filtered =
        SelectSeq(df, LAMBDA r : /\ ~AmountIsZero(r)
                                 /\ DateInRange(r, params)
                                 /\ TypeSelected(r, params)
                                 /\ PayeeSelected(r, params)
                                 /\ AmountInRange(r, params))

(* C9's case: a valid selection whose view is not empty and leaves out a   *)
(* zero-amount row that satisfies the four predicates.                     *)
C9_Witness ==
    /\ ValidRange
    /\ df_filtered # <<>>
    /\ \E j \in 1..Len(df) :
         /\ AmountIsZero(df[j])
         /\ DateInRange(df[j], params)
         /\ TypeSelected(df[j], params)
         /\ PayeeSelected(df[j], params)
         /\ AmountInRange(df[j], params)

----------------------------------------------------------------------------
(* The empty-state results.                                                *)

IsPlaceholder(fig) ==
    IF fig.kind = "figure"
    THEN fig.title \in {SemGastos.title, SemFluxo.title} /\ fig.data = <<>>
    ELSE fig.columns = RankingSentinel.columns /\ fig.data = RankingSentinel.data

(* An ordinary chart (its own title) that happens to hold no data point.   *)
IsChartWithoutData(fig) ==
    fig.kind = "figure" /\ fig.data = <<>> /\ ~IsPlaceholder(fig)

NoExpense == \A j \in 1..Len(df_filtered) :
                ~(df_filtered[j].Valor.t = "num" /\ df_filtered[j].Valor.n < 0)

(* C5 as stated: on an empty subset every one of the seven aggregations    *)
(* yields a placeholder; the expense aggregations also do on a subset      *)
(* without negative amount.                                                *)
C5_EveryAggregationHasAPlaceholder ==
    pc = "rendered" =>
      /\ df_filtered = <<>> =>
           \A name \in DOMAIN figs : IsPlaceholder(figs[name])
      /\ NoExpense =>
           \A name \in {"total_plot", "establishments_plot", "ranking", "category_plot"} :
             IsPlaceholder(figs[name])

(* C5 amended: on an empty subset the five aggregation functions (monthly  *)
(* totals, top payees, ranking table, category pie, daily flow) yield      *)
(* their placeholder, while the cumulative balance and the histogram have  *)
(* no empty-state branch and are built as ordinary charts without data;    *)
(* the four expense aggregations also yield their placeholder on a subset  *)
(* without negative amount.  None raises.                                  *)
C5_FunctionsHavePlaceholdersInlineChartsDoNot ==
    pc = "rendered" =>
      /\ df_filtered = <<>> =>
           /\ \A name \in {"total_plot", "establishments_plot", "ranking",
                           "category_plot", "flow_plot"} : IsPlaceholder(figs[name])
           /\ IsChartWithoutData(figs.saldo)
           /\ IsChartWithoutData(figs.hist)
      /\ NoExpense =>
           \A name \in {"total_plot", "establishments_plot", "ranking", "category_plot"} :
             IsPlaceholder(figs[name])
      /\ DOMAIN figs = {"total_plot", "establishments_plot", "ranking",
                        "category_plot", "flow_plot", "saldo", "hist"}

(* C5's case: the aggregations were rendered from an empty subset.         *)
C5_Witness == pc = "rendered" /\ df_filtered = <<>>

----------------------------------------------------------------------------
(* C6: the file of the specification's example (header                     *)
(* Data,Valor,Descrição; line 01/03/2024;-50,00;Mercado), read alone,      *)
(* gives a ledger of exactly one row: 2024-03-01, -50.00, "Mercado".       *)
C6_ExampleFileGivesOneRow ==
    (LoadEnded /\ Len(tried) = 1 /\ tried[1][2] = "exemplo.csv") =>
      /\ LedgerReturned
      /\ Len(df) = 1
      /\ df[1].Data = 20240301
      /\ df[1].Valor = Num(0 - 50)
      /\ df[1].Descricao = Str(<<"Mercado">>)

(* The rows (folder, file, line) of the accepted files whose date parses.  *)
AcceptedRows ==
    UNION { { <<tried[k][1], tried[k][2], i>> :
                i \in { n \in 1..Len(ReadFile(tried[k][2]).rows) :
                          to_datetime(Standardize(ReadFile(tried[k][2]),
                                                  tried[k][1], tried[k][2])[n].Data) # NaT } } :
            k \in { m \in 1..Len(tried) : YieldsBoth(tried[m][2]) } }

(* C7: the ledger holds, each exactly once, the rows of the accepted files *)
(* whose date parses, and no other row.                                    *)
C7_LedgerHoldsEachAcceptedRowOnce ==
    pc = "main" =>
      /\ \A id \in AcceptedRows : Cardinality({j \in 1..Len(df) : df[j].src = id}) = 1
      /\ \A j \in 1..Len(df) : df[j].src \in AcceptedRows

(* C8: every row of the returned ledger has a numeric Amount.              *)
C8_EveryAmountIsNumeric ==
    pc = "main" => \A j \in 1..Len(df) : df[j].Valor.t = "num"

----------------------------------------------------------------------------
(* The expenses of the filtered ledger, computed row by row.               *)

ExpenseIdx == {j \in 1..Len(df_filtered) :
                 df_filtered[j].Valor.t = "num" /\ df_filtered[j].Valor.n < 0}

RECURSIVE SumOver(_)
SumOver(J) ==
    IF J = {} THEN 0
    ELSE LET j == CHOOSE x \in J : TRUE
         IN  df_filtered[j].Valor.n + SumOver(J \ {j})

ExpensePayees == {df_filtered[j].Descricao.s :
                    j \in {x \in ExpenseIdx : df_filtered[x].Descricao.t = "str"}}

PayeeExpense(k) ==
    0 - SumOver({j \in ExpenseIdx : df_filtered[j].Descricao = Str(k)})

MonthExpense(m) ==
    0 - SumOver({j \in ExpenseIdx : df_filtered[j].Data \div 100 = m})

CategoryExpense(c) ==
    0 - SumOver({j \in ExpenseIdx : df_filtered[j].Categoria = c})

(* data has one entry per key of keys, each with that key's total.         *)
GroupsAre(data, keys, TotalOf(_)) ==
    /\ Len(data) = Cardinality(keys)
    /\ {data[i].key : i \in 1..Len(data)} = keys
    /\ \A i \in 1..Len(data) : data[i].Valor = TotalOf(data[i].key) /\ data[i].Valor >= 0

(* C10: the expense aggregations use exactly the rows with Amount < 0,     *)
(* grouped by month, category or payee, each group's total reported as a   *)
(* non-negative absolute value; the top chart holds min(10, number of      *)
(* expense payees) payees and leaves out no payee with a strictly larger   *)
(* total than one it holds; the ranking lists every expense payee in       *)
(* non-increasing order of total.                                          *)
C10_ExpenseAggregationsBySignOfAmount ==
    (pc = "rendered" /\ ExpenseIdx # {}) =>
      LET top == figs.establishments_plot.data
          ranking == figs.ranking.data
          shown == {top[i].key : i \in 1..Len(top)}
      IN  /\ GroupsAre(figs.total_plot.data,
                       {df_filtered[j].Data \div 100 : j \in ExpenseIdx}, MonthExpense)
          /\ GroupsAre(figs.category_plot.data,
                       {df_filtered[j].Categoria : j \in ExpenseIdx}, CategoryExpense)
          /\ GroupsAre(ranking, ExpensePayees, PayeeExpense)
          /\ \A i \in 1..(Len(ranking) - 1) : ranking[i].Valor >= ranking[i + 1].Valor
          /\ Len(top) = (IF Cardinality(ExpensePayees) < 10
                         THEN Cardinality(ExpensePayees) ELSE 10)
          /\ GroupsAre(top, shown, PayeeExpense)
          /\ shown \subseteq ExpensePayees
          /\ \A q \in ExpensePayees \ shown : \A k \in shown :
               PayeeExpense(q) <= PayeeExpense(k)

(* C10's case: more expense payees than the top chart holds, with rows of  *)
(* positive amount in the same subset.                                     *)
C10_Witness ==
    /\ pc = "rendered"
    /\ Cardinality(ExpensePayees) > 10
    /\ Len(figs.establishments_plot.data) = 10
    /\ \E j \in 1..Len(df_filtered) : df_filtered[j].Valor.n > 0

----------------------------------------------------------------------------
(* The rows of the ledger that the widget values p select, row by row: a   *)
(* function of the ledger and of p alone.                                  *)
ViewOf(ledger, p) ==
    SelectSeq(ledger, LAMBDA r : /\ ~AmountIsZero(r)
                                 /\ (p.start_date > p.end_date \/ DateInRange(r, p))
                                 /\ TypeSelected(r, p)
                                 /\ PayeeSelected(r, p)
                                 /\ AmountInRange(r, p))

(* Every row of view is a row of ledger.                                   *)
IsSubsetOfLedger(view, ledger) ==
    \A j \in 1..Len(view) : \E i \in 1..Len(ledger) : ledger[i] = view[j]

(* C11: over any sequence of interactions (invalid date ranges included),  *)
(* with the source files unchanged, every step of the session leaves the   *)
(* ledger as it was assembled at session start and leaves the working      *)
(* directory unwritten, and the view after each interaction is a subset of *)
(* the ledger determined by the current widget values alone, whatever the  *)
(* interactions before it.                                                 *)
C11_LedgerFixedViewFromCurrentParamsOnly ==
    [][ /\ df' = df
        /\ fs' = fs
        /\ pc' = "rendered" =>
              /\ df_filtered' = ViewOf(df', params')
              /\ IsSubsetOfLedger(df_filtered', df') ]_vars

(* C11's case: the view after a second interaction, with a valid range,    *)
(* that followed an interaction with an invalid range; the view is a       *)
(* non-empty proper part of the ledger, which is still what the files      *)
(* give.                                                                   *)
C11_Witness ==
    /\ pc = "rendered"
    /\ Len(session) >= 2
    /\ session[1] = "invalid range"
    /\ session[Len(session)] = "valid range"
    /\ df = load_and_process_data(fs)
    /\ df_filtered # <<>>
    /\ Len(df_filtered) < Len(df)

====
